---- MODULE Spec2Model ----
(***************************************************************************)
(* Act-Operator scaffolding engine, act_operator/utils.py: the two         *)
(* configuration mutators update_workspace_members (pyproject.toml) and    *)
(* update_langgraph_registry (langgraph.json), the name normalizer         *)
(* build_name_variants, and the two renderers render_cookiecutter_template *)
(* and render_cookiecutter_cast_subproject.                                *)
(*                                                                         *)
(* A path string is modelled by its rank in Python's string order: the     *)
(* cast identifiers are 1..MaxCast in lexicographic order, "casts/<c>" and *)
(* "./casts/<c>" keep that order, and "." (rank 0) sorts before every      *)
(* "./casts/<c>".                                                          *)
(*                                                                         *)
(* pyproject.toml is a sequence of tokens (a table header, a key/value     *)
(* pair, a comment, a newline); the member array is one token that carries *)
(* its items and the way it is written.  langgraph.json is the way it is   *)
(* written plus its top-level keys in file order and their values.         *)
(* Member path 0 is a member that is no cast ("apps/core"), dependency     *)
(* path 0 is the project root marker ".".                                  *)
(*                                                                         *)
(* A name is a sequence of one-character strings.  A directory is the set  *)
(* of its files, a file being its path below the directory and the origin  *)
(* of its content.                                                         *)
(***************************************************************************)
EXTENDS Naturals, Sequences, FiniteSets

VARIABLES pyproject, langgraph, last, naming, disk, call, flow, generated, writers

vars == <<pyproject, langgraph, last, naming, disk, call, flow, generated, writers>>

\* Bounds of the model.
MaxCast == 2
MaxLen == 2
MaxName == 4

Casts == 1..MaxCast

SeqsUpTo(S, n) == UNION {[1..k -> S] : k \in 0..n}

\* ---------------------------------------------------------------- lists

\* x in xs
Contains(xs, x) == \E i \in 1..Len(xs) : xs[i] = x

IsSorted(xs) == \A i \in 1..Len(xs) : \A j \in 1..Len(xs) : i < j => xs[i] <= xs[j]

NoDuplicates(xs) == \A i \in 1..Len(xs) : \A j \in 1..Len(xs) : i # j => xs[i] # xs[j]

Elems(xs) == {xs[i] : i \in 1..Len(xs)}

RECURSIVE Insert(_, _)
Insert(xs, x) ==
    IF xs = <<>> THEN <<x>>
    ELSE IF x < Head(xs) THEN <<x>> \o xs
    ELSE <<Head(xs)>> \o Insert(Tail(xs), x)

\* Faulty variant: the list is left in the order it has.
SortNothing(xs) == xs

\* list.sort(): a stable ascending sort (insertion sort).
RECURSIVE Sort(_)
Sort(xs) == IF xs = <<>> THEN <<>> ELSE Insert(Sort(SubSeq(xs, 1, Len(xs) - 1)), xs[Len(xs)])

\* ------------------------------------------------------- pyproject.toml

\* The ways a member array is written: exactly as _format_members_section
\* writes it, on one line, with a comment inside the array, and with a comment
\* inside the array that holds a "]".
MemberStyles == {"canonical", "inline", "with_comment", "with_bracket_comment"}

Tok(t) == [tok |-> t, items |-> <<>>, style |-> ""]

MembersTok(items, style) == [tok |-> "members", items |-> items, style |-> style]

NL == Tok("nl")

TableHeaders == {"[tool.uv.workspace]", "[project]", "[tool.ruff]"}

KeyValues == {"exclude", "name", "line-length", "members"}

IsStatement(t) == t.tok \in TableHeaders \cup KeyValues

\* The table a token belongs to: the index of the last header before it (0: root).
RECURSIVE TableOf(_, _)
TableOf(content, i) ==
    IF i = 0 THEN 0
    ELSE IF content[i].tok \in TableHeaders THEN i
    ELSE TableOf(content, i - 1)

\* tomllib.loads succeeds: no stray text, every statement ends its line (only a
\* comment may follow it), no table declared twice, no key twice in a table.
TomlValid(content) ==
    /\ \A i \in 1..Len(content) : content[i].tok # "junk"
    /\ \A i \in 1..Len(content) - 1 :
          IsStatement(content[i]) => content[i + 1].tok \in {"nl", "comment"}
    /\ \A i \in 1..Len(content) : \A j \in 1..Len(content) :
          ~(i < j /\ content[i].tok = content[j].tok /\ content[i].tok \in TableHeaders)
    /\ \A i \in 1..Len(content) : \A j \in 1..Len(content) :
          (i < j /\ content[i].tok = content[j].tok /\ content[i].tok \in KeyValues)
             => TableOf(content, i) # TableOf(content, j)

\* Index of the members key of table [tool.uv.workspace], 0 if there is none.
MembersIndex(content) ==
    LET S == {i \in 1..Len(content) :
                 /\ content[i].tok = "members"
                 /\ TableOf(content, i) # 0
                 /\ content[TableOf(content, i)].tok = "[tool.uv.workspace]"}
    IN IF S = {} THEN 0 ELSE CHOOSE i \in S : \A j \in S : i <= j

_extract_workspace_members(content) ==
    IF MembersIndex(content) = 0 THEN <<>> ELSE content[MembersIndex(content)].items

_format_members_section(members) == MembersTok(members, "canonical")

\* content.rstrip()
RECURSIVE RStrip(_)
RStrip(content) ==
    IF content # <<>> /\ content[Len(content)].tok = "nl"
    THEN RStrip(SubSeq(content, 1, Len(content) - 1))
    ELSE content

\* First index >= i that is not whitespace (Len + 1 if none): the end of \s*.
RECURSIVE SkipSpace(_, _)
SkipSpace(content, i) ==
    IF i <= Len(content) /\ content[i].tok = "nl" THEN SkipSpace(content, i + 1) ELSE i

HeaderIndex(content) ==
    LET S == {i \in 1..Len(content) : content[i].tok = "[tool.uv.workspace]"}
    IN IF S = {} THEN 0 ELSE CHOOSE i \in S : \A j \in S : i <= j

\* The regular expression (\[tool\.uv\.workspace\]\s*)(?:members\s*=\s*\[[^\]]*\])?
\* substituted once: group 1 is the header and the whitespace after it; the
\* optional group matches a members key only when it comes next, and ends at the
\* first "]" (for a comment holding "]" the rest of the array is left behind).
_update_workspace_section(content, members) ==
    LET formatted_members == _format_members_section(members)
        h == HeaderIndex(content)
        j == SkipSpace(content, h + 1)
    IN IF h # 0
       THEN IF j <= Len(content) /\ content[j].tok = "members"
            THEN SubSeq(content, 1, j - 1) \o <<formatted_members>>
                 \o (IF content[j].style = "with_bracket_comment" THEN <<Tok("junk")>> ELSE <<>>)
                 \o SubSeq(content, j + 1, Len(content))
            ELSE SubSeq(content, 1, j - 1) \o <<formatted_members>>
                 \o SubSeq(content, j, Len(content))
       ELSE RStrip(content)
            \o <<NL, NL, Tok("[tool.uv.workspace]"), NL, formatted_members, NL>> \o <<NL>>

\* -------------------------------------------------------- langgraph.json

\* The ways the JSON text is written: as json.dumps(indent=2) plus a newline
\* writes it, in another layout, and not JSON at all.
JsonStyles == {"indent2", "compact", "malformed"}

\* f"./casts/{cast_snake}/graph.py:{cast_snake}_graph"
graph_reference(cast_snake) == "graph.py"

\* A hand-edited entry point, "./casts/<c>/entry:<c>_graph".
custom_reference(cast_snake) == "entry"

\* f"./casts/{cast_snake}": the path's rank is the identifier's rank, above ".".
cast_dependency(cast_snake) == cast_snake

\* f"casts/{cast_snake}"  (cli.py), above "apps/core".
workspace_member(cast_snake) == cast_snake

HasKey(payload, k) == Contains(payload.keys, k)

GraphIndex(graphs, k) ==
    LET S == {i \in 1..Len(graphs) : graphs[i].key = k}
    IN IF S = {} THEN 0 ELSE CHOOSE i \in S : \A j \in S : i <= j

\* A JSON object parsed into a dict: a repeated key keeps its first position and
\* takes its last value.
RECURSIVE ObjectPairs(_)
ObjectPairs(graphs) ==
    IF graphs = <<>> THEN <<>>
    ELSE LET init == ObjectPairs(SubSeq(graphs, 1, Len(graphs) - 1))
             e == graphs[Len(graphs)]
             i == GraphIndex(init, e.key)
         IN IF i = 0 THEN Append(init, e) ELSE [init EXCEPT ![i] = e]

\* Faulty variant: any text passes for JSON.
JsonValid_any(text) == TRUE

JsonValid(text) == text.style # "malformed"

\* json.loads(file_path.read_text())
_load_json_file(text) ==
    [keys |-> text.keys, dependencies |-> text.dependencies,
     graphs |-> ObjectPairs(text.graphs), env |-> text.env]

\* json.dumps(data, ensure_ascii=False, indent=2) + "\n"
_save_json_file(data) ==
    [style |-> "indent2", keys |-> data.keys, dependencies |-> data.dependencies,
     graphs |-> data.graphs, env |-> data.env]

\* Faulty variant: appends the path and leaves out the sort.
_add_cast_dependency_unsorted(payload, cast_snake) ==
    LET seeded == IF HasKey(payload, "dependencies") THEN payload
                  ELSE [payload EXCEPT !.keys = Append(@, "dependencies"),
                                       !.dependencies = <<0>>]
    IN IF ~Contains(seeded.dependencies, cast_dependency(cast_snake))
       THEN [seeded EXCEPT !.dependencies = Append(@, cast_dependency(cast_snake))]
       ELSE seeded

\* Faulty variant: payload["dependencies"] = [".", path], whatever the list held.
_add_cast_dependency_reset(payload, cast_snake) ==
    LET seeded == IF HasKey(payload, "dependencies") THEN payload
                  ELSE [payload EXCEPT !.keys = Append(@, "dependencies")]
    IN [seeded EXCEPT !.dependencies = <<0, cast_dependency(cast_snake)>>]

\* Faulty variant: appends the path without looking for it first.
_add_cast_dependency_always(payload, cast_snake) ==
    LET seeded == IF HasKey(payload, "dependencies") THEN payload
                  ELSE [payload EXCEPT !.keys = Append(@, "dependencies"),
                                       !.dependencies = <<0>>]
    IN [seeded EXCEPT !.dependencies = Sort(Append(@, cast_dependency(cast_snake)))]

_add_cast_dependency(payload, cast_snake) ==
    LET seeded == IF HasKey(payload, "dependencies") THEN payload
                  ELSE [payload EXCEPT !.keys = Append(@, "dependencies"),
                                       !.dependencies = <<0>>]
        dependencies == seeded.dependencies
    IN IF ~Contains(dependencies, cast_dependency(cast_snake))
       THEN [seeded EXCEPT !.dependencies =
                               Sort(Append(dependencies, cast_dependency(cast_snake)))]
       ELSE seeded

\* Faulty variant: graphs[cast_snake] = graph_reference instead of setdefault.
_add_cast_graph_overwrite(payload, cast_snake) ==
    LET seeded == IF HasKey(payload, "graphs") THEN payload
                  ELSE [payload EXCEPT !.keys = Append(@, "graphs"), !.graphs = <<>>]
        i == GraphIndex(seeded.graphs, cast_snake)
        e == [key |-> cast_snake, ref |-> graph_reference(cast_snake)]
    IN IF i = 0 THEN [seeded EXCEPT !.graphs = Append(@, e)]
       ELSE [seeded EXCEPT !.graphs[i] = e]

_add_cast_graph(payload, cast_snake) ==
    LET seeded == IF HasKey(payload, "graphs") THEN payload
                  ELSE [payload EXCEPT !.keys = Append(@, "graphs"), !.graphs = <<>>]
    IN IF GraphIndex(seeded.graphs, cast_snake) = 0
       THEN [seeded EXCEPT !.graphs =
                Append(@, [key |-> cast_snake, ref |-> graph_reference(cast_snake)])]
       ELSE seeded

\* ---------------------------------------------------------------- names

AsciiLower ==
    <<"a", "b", "c", "d", "e", "f", "g", "h", "i", "j", "k", "l", "m",
      "n", "o", "p", "q", "r", "s", "t", "u", "v", "w", "x", "y", "z">>

AsciiUpper ==
    <<"A", "B", "C", "D", "E", "F", "G", "H", "I", "J", "K", "L", "M",
      "N", "O", "P", "Q", "R", "S", "T", "U", "V", "W", "X", "Y", "Z">>

AsciiDigits == {"0", "1", "2", "3", "4", "5", "6", "7", "8", "9"}

\* Letters outside ASCII, lower case and upper case.
NonAsciiLower == <<"é">>

NonAsciiUpper == <<"É">>

\* LATIN CAPITAL LETTER I WITH DOT ABOVE, written by its code point: its lower
\* case is two characters, "i" and the combining dot above (U+0307), which is
\* no letter and no digit.
DottedI == "U+0130"

CombiningDot == "U+0307"

Whitespace == {" ", "\t"}

IndexOf(table, ch) == CHOOSE i \in 1..Len(table) : table[i] = ch

\* str.islower / str.isupper of one character: Python's str is Unicode.
islower(ch) == Contains(AsciiLower, ch) \/ Contains(NonAsciiLower, ch)

isupper(ch) == Contains(AsciiUpper, ch) \/ Contains(NonAsciiUpper, ch) \/ ch = DottedI

isalpha(ch) == islower(ch) \/ isupper(ch)

\* str.isalnum of one character.
isalnum(ch) == isalpha(ch) \/ ch \in AsciiDigits

\* str.lower of one character: a string.
lower(ch) ==
    IF Contains(AsciiUpper, ch) THEN <<AsciiLower[IndexOf(AsciiUpper, ch)]>>
    ELSE IF Contains(NonAsciiUpper, ch) THEN <<NonAsciiLower[IndexOf(NonAsciiUpper, ch)]>>
    ELSE IF ch = DottedI THEN <<"i", CombiningDot>>
    ELSE <<ch>>

\* "".join(parts)
RECURSIVE join(_)
join(parts) == IF parts = <<>> THEN <<>> ELSE parts[1] \o join(Tail(parts))

\* str.upper of one character.
upper(ch) ==
    IF Contains(AsciiLower, ch) THEN AsciiUpper[IndexOf(AsciiLower, ch)]
    ELSE IF Contains(NonAsciiLower, ch) THEN NonAsciiUpper[IndexOf(NonAsciiLower, ch)]
    ELSE ch

RECURSIVE lstrip(_, _)
lstrip(value, chars) ==
    IF value # <<>> /\ value[1] \in chars THEN lstrip(Tail(value), chars) ELSE value

RECURSIVE rstrip(_, _)
rstrip(value, chars) ==
    IF value # <<>> /\ value[Len(value)] \in chars
    THEN rstrip(SubSeq(value, 1, Len(value) - 1), chars)
    ELSE value

\* str.strip: the characters of chars are removed at both ends.
strip(value, chars) == rstrip(lstrip(value, chars), chars)

\* str.replace of one character by a string.
RECURSIVE replace(_, _, _)
replace(value, old, new) ==
    IF value = <<>> THEN <<>>
    ELSE (IF value[1] = old THEN new ELSE <<value[1]>>) \o replace(Tail(value), old, new)

\* Faulty variant, str.capitalize: only the first character is upper-cased.
capitalize(value) ==
    join([i \in 1..Len(value) |-> IF i = 1 THEN <<upper(value[i])>> ELSE lower(value[i])])

\* str.title: a cased character is upper-cased unless the character before it
\* is cased, and lower-cased if it is; an uncased character stays.
title(value) ==
    join([i \in 1..Len(value) |->
             IF ~isalpha(value[i]) THEN <<value[i]>>
             ELSE IF i > 1 /\ isalpha(value[i - 1]) THEN lower(value[i])
             ELSE <<upper(value[i])>>])

\* re.sub(re.escape(separator) + "{2,}", separator, text): every maximal run of
\* two or more separators becomes one separator.
RECURSIVE re_sub(_, _)
re_sub(separator, text) ==
    IF Len(text) < 2 THEN text
    ELSE IF text[1] = separator /\ text[2] = separator
    THEN re_sub(separator, Tail(text))
    ELSE <<text[1]>> \o re_sub(separator, Tail(text))

\* Faulty variant: runs of separators are kept.
_normalize_uncollapsed(value, separator) ==
    strip(join([i \in 1..Len(value) |->
                   IF isalnum(value[i]) THEN lower(value[i]) ELSE <<separator>>]),
          {separator})

_normalize(value, separator) ==
    LET cleaned == [i \in 1..Len(value) |->
                       IF isalnum(value[i]) THEN lower(value[i]) ELSE <<separator>>]
        collapsed == re_sub(separator, join(cleaned))
    IN strip(collapsed, {separator})

\* ValueError of build_name_variants: the spec's InvalidNameError.
InvalidNameError == "ValueError"

NameVariants(raw, slug, snake, title_, pascal) ==
    [outcome |-> "ok", raw |-> raw, slug |-> slug, snake |-> snake,
     title |-> title_, pascal |-> pascal]

NoVariants(error) ==
    [outcome |-> error, raw |-> <<>>, slug |-> <<>>, snake |-> <<>>,
     title |-> <<>>, pascal |-> <<>>]

build_name_variants(raw) ==
    LET normalized == strip(raw, Whitespace)
    IN IF normalized = <<>> THEN NoVariants(InvalidNameError)
       ELSE LET slug == _normalize(normalized, "-")
                snake == _normalize(normalized, "_")
                title_ == title(replace(replace(normalized, "_", <<" ">>), "-", <<" ">>))
                pascal == replace(title_, " ", <<>>)
            IN IF slug = <<>> \/ snake = <<>> THEN NoVariants(InvalidNameError)
               ELSE NameVariants(normalized, slug, snake, title_, pascal)

\* ------------------------------------------------------------ config operations

\* RuntimeError of _validate_file_exists: the spec's ConfigNotFoundError.
ConfigNotFoundError == "RuntimeError"

\* tomllib.TOMLDecodeError / json.JSONDecodeError: the spec's ConfigParseError.
ConfigParseError == "DecodeError"

\* Faulty variant: the existence check is left out.
_validate_file_exists_skipped(file) == TRUE

_validate_file_exists(file) == file.exists

\* Path.write_text: the file exists afterwards and holds exactly the text.
write_text(text) == [exists |-> TRUE, content |-> text]

\* The state of the last call: the operation, its argument, how it ended, whether
\* it wrote, the member list it ended with, both files as they were before it,
\* and the call before it.

Record(op, arg, outcome, wrote, members) ==
    [op |-> op, arg |-> arg, outcome |-> outcome, wrote |-> wrote, members |-> members,
     prePy |-> pyproject, preLg |-> langgraph,
     prevOp |-> last.op, prevArg |-> last.arg, prevOutcome |-> last.outcome]

\* update_workspace_members on a file: how the call ends, the file it leaves,
\* whether it wrote and the member list it ended with.
workspace_members_call(file, new_member) ==
    IF ~_validate_file_exists(file)
    THEN [outcome |-> ConfigNotFoundError, file |-> file, wrote |-> FALSE,
          members |-> <<>>]
    ELSE IF ~TomlValid(file.content)
    THEN [outcome |-> ConfigParseError, file |-> file, wrote |-> FALSE,
          members |-> <<>>]
    ELSE LET members == _extract_workspace_members(file.content)
         IN IF Contains(members, new_member)
            THEN [outcome |-> "ok", file |-> file, wrote |-> FALSE, members |-> members]
            ELSE LET sorted == Sort(Append(members, new_member))
                 IN [outcome |-> "ok",
                     file |-> write_text(_update_workspace_section(file.content, sorted)),
                     wrote |-> TRUE, members |-> sorted]

\* update_langgraph_registry on a file: how the call ends, the file it leaves and
\* whether it wrote.
langgraph_registry_call(file, cast_snake) ==
    IF ~_validate_file_exists(file)
    THEN [outcome |-> ConfigNotFoundError, file |-> file, wrote |-> FALSE]
    ELSE IF ~JsonValid(file.content)
    THEN [outcome |-> ConfigParseError, file |-> file, wrote |-> FALSE]
    ELSE LET payload == _load_json_file(file.content)
             updated == _add_cast_graph(_add_cast_dependency(payload, cast_snake),
                                        cast_snake)
         IN [outcome |-> "ok", file |-> write_text(_save_json_file(updated)),
             wrote |-> TRUE]

update_workspace_members(new_member) ==
    LET done == workspace_members_call(pyproject, new_member)
    IN /\ pyproject' = done.file
       /\ last' = Record("update_workspace_members", new_member,
                         done.outcome, done.wrote, done.members)
       /\ UNCHANGED <<langgraph, naming, disk, call, flow, generated, writers>>

update_langgraph_registry(cast_snake) ==
    LET done == langgraph_registry_call(langgraph, cast_snake)
    IN /\ langgraph' = done.file
       /\ last' = Record("update_langgraph_registry", cast_snake,
                         done.outcome, done.wrote, <<>>)
       /\ UNCHANGED <<pyproject, naming, disk, call, flow, generated, writers>>

\* The name the normalizer was given, whether it was called, and what it gave.
NameNormalizer ==
    /\ ~naming.called
    /\ naming' = [input |-> naming.input, called |-> TRUE,
                  result |-> build_name_variants(naming.input)]
    /\ UNCHANGED <<pyproject, langgraph, last, disk, call, flow, generated, writers>>

\* ------------------------------------------------------------ rendering

\* A directory: whether it exists and the files below it.
Absent == [exists |-> FALSE, files |-> {}]

Dir(files) == [exists |-> TRUE, files |-> files]

\* A file: the directory it is in (relative to the tree's root), its name, and
\* its content ("stale" for a file that was there before any render, otherwise
\* the text the template gives under the context).
File(dir, name, content) == [dir |-> dir, name |-> name, content |-> content]

PathsOf(files) == {<<f.dir, f.name>> : f \in files}

\* OSError of shutil / pathlib: the spec's IOError.
IOError == "OSError"

\* FileNotFoundError of _validate_cast_directory: the spec's RenderIntegrityError.
RenderIntegrityError == "FileNotFoundError"

\* cookiecutter's exception for a template that is not there: the spec's
\* TemplateNotFoundError.
TemplateNotFoundError == "RepositoryNotFound"

\* Any other exception raised while cookiecutter renders.
RenderFailure == "CookiecutterException"

\* The sub-directory casts/<cast_snake> of a rendered project.
CastDir == "casts/cast_snake"

\* What cookiecutter renders from the template under the context: the project
\* files, and the cast package if the template has one.
RenderedProject(template, context) ==
    {File("", "pyproject.toml", context.language)}
    \cup (IF template.hasCast
          THEN {File(CastDir, "graph.py", context.language),
                File(CastDir, "state.py", context.language)}
          ELSE {})

\* cookiecutter(..., output_dir, overwrite_if_exists=True) on the directory the
\* project is rendered to: an existing directory is rendered into, its files are
\* overwritten path by path and its other files stay.
cookiecutter(template, context, existing) ==
    LET project == RenderedProject(template, context)
    IN Dir(project \cup {f \in existing.files : <<f.dir, f.name>> \notin PathsOf(project)})

\* cookiecutter failing after it rendered the files of part: it deletes the
\* project directory if it created it, and leaves an existing one as it is then.
cookiecutter_failed(existing, part) ==
    IF existing.exists
    THEN Dir(part \cup {f \in existing.files : <<f.dir, f.name>> \notin PathsOf(part)})
    ELSE Absent

\* Faulty variant: a template is found wherever it is looked for.
determine_repo_dir_any(template) == TRUE

\* cookiecutter looking for the template at the path it is given: it raises when
\* there is none.
determine_repo_dir(template) == template.exists

_ensure_clean_target(d) == IF d.target.exists THEN [d EXCEPT !.target = Absent] ELSE d

\* rendered_path is output_root/<top>: renamed to the target if it is not the
\* target.
_normalize_rendered_path(d, top) ==
    IF top # "target" THEN [d EXCEPT !.target = d[top], ![top] = Absent] ELSE d

\* Faulty variant: the temporary directory outlives the with block.
TemporaryDirectory_kept(d) == d

\* Leaving the with block of tempfile.TemporaryDirectory, on return or on an
\* exception: the temporary directory is removed.
TemporaryDirectory_exit(d) == [d EXCEPT !.staging = Absent]

\* rendered_path / "casts" / context["cast_snake"] in the staging root, as the
\* tree it is the root of.
source_cast_dir(staged) ==
    IF \E f \in staged.files : f.dir = CastDir
    THEN Dir({File("", f.name, f.content) : f \in {g \in staged.files : g.dir = CastDir}})
    ELSE Absent

\* Faulty variant: the rendered cast directory is not looked at.
_validate_cast_directory_skipped(cast_dir) == TRUE

_validate_cast_directory(cast_dir) == cast_dir.exists

\* output_root.mkdir(parents=True, exist_ok=True)
mkdir(d) == [d EXCEPT !.parent = TRUE]

\* The state of the last render call: the operation, its inputs, the fault the
\* file system had for it, how it ended, the steps it took in order, the disk
\* before it, and whether the call before it was the same render, with the same
\* template and context, and succeeded.
RenderCall(op, template, context, fault, outcome, steps) ==
    [op |-> op, template |-> template, context |-> context, fault |-> fault,
     outcome |-> outcome, steps |-> steps, pre |-> disk,
     repeated |-> /\ call.op = op /\ call.template = template
                  /\ call.context = context /\ call.outcome = "ok"]

\* shutil.move of the rendered cast directory to the target, which is not there:
\* the target is the cast tree and the staging root has lost it.
shutil_move(d, source) ==
    [d EXCEPT !.target = source,
              !.staging = Dir({f \in d.staging.files : f.dir # CastDir})]

\* How a render call ends: the disk it leaves, the exception it raises ("ok" for
\* none) and the steps it took.
RenderEnd(after, outcome, steps) == [disk |-> after, outcome |-> outcome, steps |-> steps]

\* The faults the file system can have for a call of render_cookiecutter_template
\* on a disk: a removal fails only where there is something to remove, a render
\* only where there is a template, a rename only where the rendered directory is
\* not the target.
template_fault_possible(d, template, fault) ==
    /\ fault = "rmtree" => d.target.exists
    /\ fault = "render" => template.exists
    /\ fault = "move" => template.exists /\ template.top # "target"

\* render_cookiecutter_template on a disk: the ways the call can end.
template_render_calls(d, template, context, fault) ==
    LET wiped == _ensure_clean_target(d)
        wipe == IF d.target.exists THEN <<"rmtree">> ELSE <<>>
    IN IF fault = "rmtree"
       THEN {RenderEnd([d EXCEPT !.target = Dir(left)], IOError, wipe) :
                left \in {d.target.files, {}}}
       ELSE IF ~determine_repo_dir(template)
       THEN {RenderEnd(wiped, TemplateNotFoundError, wipe \o <<"cookiecutter">>)}
       ELSE IF fault = "render"
       THEN {RenderEnd([mkdir(wiped) EXCEPT
                           ![template.top] =
                               cookiecutter_failed(wiped[template.top], part)],
                       RenderFailure, wipe \o <<"cookiecutter">>) :
                part \in SUBSET RenderedProject(template, context)}
       ELSE LET rendered == [mkdir(wiped) EXCEPT
                                ![template.top] =
                                    cookiecutter(template, context, wiped[template.top])]
            IN IF fault = "move"
               THEN {RenderEnd(rendered, IOError, wipe \o <<"cookiecutter", "rename">>)}
               ELSE {RenderEnd(_normalize_rendered_path(rendered, template.top), "ok",
                               wipe \o <<"cookiecutter">>
                                    \o (IF template.top # "target"
                                        THEN <<"rename">> ELSE <<>>))}

render_cookiecutter_template(template, context, fault) ==
    /\ UNCHANGED <<pyproject, langgraph, last, naming, flow, generated, writers>>
    /\ template_fault_possible(disk, template, fault)
    /\ \E end \in template_render_calls(disk, template, context, fault) :
           /\ disk' = end.disk
           /\ call' = RenderCall("render_cookiecutter_template", template, context,
                                 fault, end.outcome, end.steps)

\* The faults the file system can have for a call of
\* render_cookiecutter_cast_subproject on a disk: a move fails only where the
\* call gets as far as the move.
cast_fault_possible(d, template, context, fault) ==
    /\ fault = "rmtree" => d.target.exists
    /\ fault = "render" => template.exists
    /\ fault = "move" => template.exists /\ template.hasCast
                         /\ "cast_snake" \in DOMAIN context

\* render_cookiecutter_cast_subproject on a disk: the ways the call can end.
cast_render_calls(d, template, context, fault) ==
    LET wiped == _ensure_clean_target(d)
        wipe == IF d.target.exists THEN <<"rmtree">> ELSE <<>>
        render == wipe \o <<"mkdtemp", "cookiecutter">>
        entered == [wiped EXCEPT !.staging = Dir({})]
        staged == [entered EXCEPT !.staging = cookiecutter(template, context, Absent)]
        source == source_cast_dir(staged.staging)
    IN IF fault = "rmtree"
       THEN {RenderEnd([d EXCEPT !.target = Dir(left)], IOError, wipe) :
                left \in {d.target.files, {}}}
       ELSE IF ~determine_repo_dir(template)
       THEN {RenderEnd(TemporaryDirectory_exit(entered), TemplateNotFoundError,
                       render \o <<"cleanup">>)}
       ELSE IF fault = "render"
       THEN {RenderEnd(TemporaryDirectory_exit(entered), RenderFailure,
                       render \o <<"cleanup">>)}
       ELSE IF "cast_snake" \notin DOMAIN context
       THEN {RenderEnd(TemporaryDirectory_exit(staged), "KeyError",
                       render \o <<"cleanup">>)}
       ELSE IF ~_validate_cast_directory(source)
       THEN {RenderEnd(TemporaryDirectory_exit(staged), RenderIntegrityError,
                       render \o <<"validate", "cleanup">>)}
       ELSE IF fault = "move" \/ ~source.exists
       THEN {RenderEnd(TemporaryDirectory_exit([mkdir(staged) EXCEPT !.target = copied]),
                       IOError,
                       render \o <<"validate", "mkdir", "move", "cleanup">>) :
                copied \in {Absent} \cup
                           {Dir(part) : part \in
                               IF source.exists THEN SUBSET source.files ELSE {}}}
       ELSE {RenderEnd(TemporaryDirectory_exit(shutil_move(mkdir(staged), source)), "ok",
                       render \o <<"validate", "mkdir", "move", "cleanup">>)}

render_cookiecutter_cast_subproject(template, context, fault) ==
    /\ UNCHANGED <<pyproject, langgraph, last, naming, flow, generated, writers>>
    /\ cast_fault_possible(disk, template, context, fault)
    /\ \E end \in cast_render_calls(disk, template, context, fault) :
           /\ disk' = end.disk
           /\ call' = RenderCall("render_cookiecutter_cast_subproject", template,
                                 context, fault, end.outcome, end.steps)

\* ------------------------------------------------------ generated project

\* No project is generated.
NoProject ==
    [casts |-> {}, pyproject |-> [exists |-> FALSE, content |-> <<>>],
     langgraph |-> [exists |-> FALSE, content |-> <<>>]]

\* The text of a generated file, as far as cast names go: a sequence of the
\* words "members", "casts", "graph.py", of punctuation, and of the characters
\* of the names.
Quote == "\""

StartsAt(text, i, old) ==
    /\ i + Len(old) - 1 <= Len(text)
    /\ SubSeq(text, i, i + Len(old) - 1) = old

\* old in text
str_contains(text, old) == \E i \in 1..Len(text) : StartsAt(text, i, old)

\* text.replace(old, new), for a non-empty old: every occurrence, from the left.
RECURSIVE str_replace(_, _, _)
str_replace(text, old, new) ==
    IF text = <<>> THEN <<>>
    ELSE IF StartsAt(text, 1, old)
    THEN new \o str_replace(SubSeq(text, Len(old) + 1, Len(text)), old, new)
    ELSE <<Head(text)>> \o str_replace(Tail(text), old, new)

\* f"casts/{name}"
casts_path(name) == <<"casts", "/">> \o name

\* f'"{name}"'
quoted(name) == <<Quote>> \o name \o <<Quote>>

\* f"/casts/{name}/"
casts_segment(name) == <<"/", "casts", "/">> \o name \o <<"/">>

_update_pyproject_cast_path(file, old_name, new_name) ==
    IF ~file.exists THEN file
    ELSE write_text(str_replace(file.content, casts_path(old_name), casts_path(new_name)))

_update_langgraph_cast_path(file, old_name, new_name) ==
    IF ~file.exists THEN file
    ELSE write_text(str_replace(str_replace(file.content, quoted(old_name), quoted(new_name)),
                                casts_segment(old_name), casts_segment(new_name)))

\* The generated project: the directories below casts/ and the two files that
\* name the cast.
_normalize_cast_directory(g, cast_slug, cast_snake) ==
    IF ~(cast_slug \in g.casts /\ cast_snake \notin g.casts) THEN g
    ELSE [casts |-> (g.casts \ {cast_slug}) \cup {cast_snake},
          pyproject |-> _update_pyproject_cast_path(g.pyproject, cast_slug, cast_snake),
          langgraph |-> _update_langgraph_cast_path(g.langgraph, cast_slug, cast_snake)]

\* ------------------------------------------------------------------ flows

SUPPORTED_LANGUAGES == {"en", "kr"}

\* typer.Exit of _exit_with_error.
Exit == "typer.Exit"

\* Faulty variant: a directory is taken for empty whatever it holds.
_ensure_directory_is_empty_skipped(directory) == TRUE

\* Whether _ensure_directory_is_empty returns.
_ensure_directory_is_empty(directory) == ~(directory.exists /\ directory.files # {})

\* _create_directory: directory.mkdir(parents=True, exist_ok=True)
_create_directory(d) ==
    [d EXCEPT !.parent = TRUE,
              !.target = IF d.target.exists THEN d.target ELSE Dir({})]

\* _validate_scaffold_root: whether the scaffold resources are there.
_validate_scaffold_root(template) == template.exists

\* The exception that leaves _update_workspace and _update_langgraph for the one
\* that leaves the mutator: a RuntimeError becomes typer.Exit, any other
\* propagates.
_exit_on_runtime_error(outcome) == IF outcome = ConfigNotFoundError THEN Exit ELSE outcome

\* Faulty variant: the mutator's exception is dropped.
_update_workspace_swallowed(outcome) == "ok"

_update_workspace(outcome) == _exit_on_runtime_error(outcome)

_update_langgraph(outcome) == _exit_on_runtime_error(outcome)

\* The rank of casts/<cast_snake> among the workspace paths: a cast of one word
\* and a cast of several.
CastRank(cast_snake) == IF Contains(cast_snake, "_") THEN 2 ELSE 1

Stage(stage, outcome) == [stage |-> stage, outcome |-> outcome]

\* The state of the last flow: the flow, the directory the disk's target is (the
\* directory of a new project, or casts/<cast_snake> of an existing one) and the
\* names flows are given (the same for every flow of a behaviour), the stages it ran with the exception each raised
\* ("ok" for none), the exception that ended it, what the template rendered for
\* the cast before the names were reconciled, and the disk, the manifest and
\* the registry before the flow.
FlowRun(op, stages, rendered) ==
    [op |-> op, target |-> flow.target,
     act_name |-> flow.act_name, cast_name |-> flow.cast_name,
     stages |-> stages, outcome |-> stages[Len(stages)].outcome,
     rendered |-> rendered,
     pre |-> disk, prePy |-> pyproject, preLg |-> langgraph]

\* How a flow ends: the files it leaves and the stages it ran.
FlowEnd(d, py, lg, g, stages, rendered) ==
    [disk |-> d, pyproject |-> py, langgraph |-> lg, generated |-> g,
     stages |-> stages, rendered |-> rendered]

\* What a project template can render for the cast. Named by the slug: the
\* directory below casts/, alone or beside one named by the snake name, a
\* manifest (if any) that names it, a registry (if any) that names it, with the
\* project root or the cast directory as its dependency. Or named by the snake
\* name throughout.
ManifestText(name) == <<"members">> \o quoted(casts_path(name))

RegistryText(dependency, name) ==
    <<"dependencies">> \o quoted(<<".">> \o dependency)
    \o <<"graphs">> \o quoted(name)
    \o quoted(<<".">> \o casts_segment(name) \o <<"graph.py">>)

MissingFile == [exists |-> FALSE, content |-> <<>>]

RenderedLayouts(cast_slug, cast_snake) ==
    {[casts |-> c, pyproject |-> py, langgraph |-> lg] :
        c \in {{cast_slug}, {cast_slug, cast_snake}},
        py \in {MissingFile, write_text(ManifestText(cast_slug))},
        lg \in {MissingFile,
                write_text(RegistryText(<<>>, cast_slug)),
                write_text(RegistryText(<<"/">> \o casts_path(cast_slug), cast_slug))}}
    \cup {[casts |-> {cast_snake},
           pyproject |-> write_text(ManifestText(cast_snake)),
           langgraph |-> write_text(RegistryText(<<>>, cast_snake))]}

\* _generate_project: the ways the flow can end.
project_flow(act_raw, cast_raw, language, template, fault) ==
    LET act == build_name_variants(act_raw)
        cast == build_name_variants(cast_raw)
        context == [cast_snake |-> "cast_snake", language |-> language]
        created == _create_directory(disk)
        Stop(stages) == {FlowEnd(disk, pyproject, langgraph, generated, stages, NoProject)}
    IN IF language \notin SUPPORTED_LANGUAGES
       THEN Stop(<<Stage("language", Exit)>>)
       ELSE IF act.outcome # "ok" \/ cast.outcome # "ok"
       THEN Stop(<<Stage("language", "ok"), Stage("names", Exit)>>)
       ELSE LET named == <<Stage("language", "ok"), Stage("names", "ok")>>
            IN IF ~_ensure_directory_is_empty(disk.target)
               THEN Stop(named \o <<Stage("check", Exit)>>)
               ELSE IF ~_validate_scaffold_root(template)
               THEN {FlowEnd(created, pyproject, langgraph, generated,
                             named \o <<Stage("check", "ok"), Stage("scaffold", Exit)>>,
                             NoProject)}
               ELSE LET checked == named \o <<Stage("check", "ok"), Stage("scaffold", "ok")>>
                    IN UNION {
                        IF end.outcome # "ok"
                        THEN {FlowEnd(end.disk, pyproject, langgraph, NoProject,
                                      checked \o <<Stage("render", end.outcome)>>, NoProject)}
                        ELSE {FlowEnd(end.disk, pyproject, langgraph,
                                      _normalize_cast_directory(layout, cast.slug, cast.snake),
                                      checked \o <<Stage("render", "ok"),
                                                   Stage("reconcile", "ok")>>,
                                      layout) :
                                 layout \in RenderedLayouts(cast.slug, cast.snake)} :
                        end \in template_render_calls(created, template, context, fault)}

_generate_project(language, template, fault) ==
    /\ flow.target = "project"
    /\ template_fault_possible(_create_directory(disk), template, fault)
    /\ \E end \in project_flow(flow.act_name, flow.cast_name, language, template, fault) :
           /\ disk' = end.disk
           /\ generated' = end.generated
           /\ flow' = FlowRun("_generate_project", end.stages, end.rendered)
    /\ UNCHANGED <<pyproject, langgraph, last, naming, call, writers>>

\* _generate_cast_project: the ways the flow can end.
cast_flow(act_name, cast_name, language, template, fault) ==
    LET act_variants == build_name_variants(act_name)
        cast_variants == build_name_variants(cast_name)
        context == [cast_snake |-> "cast_snake", language |-> language]
        Stop(stages) == {FlowEnd(disk, pyproject, langgraph, generated, stages, NoProject)}
    IN IF act_variants.outcome # "ok" \/ cast_variants.outcome # "ok"
       THEN Stop(<<Stage("names", InvalidNameError)>>)
       ELSE LET named == <<Stage("names", "ok")>>
                cast == CastRank(cast_variants.snake)
            IN IF ~_ensure_directory_is_empty(disk.target)
               THEN Stop(named \o <<Stage("check", Exit)>>)
               ELSE IF ~_validate_scaffold_root(template)
               THEN Stop(named \o <<Stage("check", "ok"), Stage("scaffold", Exit)>>)
               ELSE IF language \notin SUPPORTED_LANGUAGES
               THEN Stop(named \o <<Stage("check", "ok"), Stage("scaffold", "ok"),
                                    Stage("language", Exit)>>)
               ELSE LET checked == named \o <<Stage("check", "ok"), Stage("scaffold", "ok"),
                                              Stage("language", "ok")>>
                    IN {IF end.outcome # "ok"
                        THEN FlowEnd(end.disk, pyproject, langgraph, generated,
                                     checked \o <<Stage("render", end.outcome)>>, NoProject)
                        ELSE LET manifest == workspace_members_call(
                                                 pyproject, workspace_member(cast))
                                 rendered == checked \o <<Stage("render", "ok")>>
                             IN IF _update_workspace(manifest.outcome) # "ok"
                                THEN FlowEnd(end.disk, manifest.file, langgraph, generated,
                                             rendered \o <<Stage("manifest", manifest.outcome)>>,
                                             NoProject)
                                ELSE LET registry == langgraph_registry_call(langgraph, cast)
                                     IN FlowEnd(end.disk, manifest.file, registry.file,
                                                generated,
                                                rendered
                                                \o <<Stage("manifest", manifest.outcome),
                                                     Stage("registry", registry.outcome)>>,
                                                NoProject) :
                        end \in cast_render_calls(disk, template, context, fault)}

_generate_cast_project(language, template, fault) ==
    /\ flow.target = "cast"
    /\ cast_fault_possible(disk, template,
                           [cast_snake |-> "cast_snake", language |-> language], fault)
    /\ \E end \in cast_flow(flow.act_name, flow.cast_name, language, template, fault) :
           /\ disk' = end.disk
           /\ pyproject' = end.pyproject
           /\ langgraph' = end.langgraph
           /\ flow' = FlowRun("_generate_cast_project", end.stages, end.rendered)
    /\ UNCHANGED <<last, naming, call, generated, writers>>

\* ------------------------------------------------------ concurrent calls

\* A mutator on a file: how the call ends, the file it leaves, whether it wrote.
mutator_call(op, file, arg) ==
    IF op = "update_workspace_members"
    THEN LET done == workspace_members_call(file, arg)
         IN [outcome |-> done.outcome, file |-> done.file, wrote |-> done.wrote]
    ELSE langgraph_registry_call(file, arg)

\* The file of the mutator.
shared_file(op) == IF op = "update_workspace_members" THEN pyproject ELSE langgraph

\* Faulty variant: the document is computed from the file as it is at the write.
written_document_reread(op, read, current, arg) == mutator_call(op, current, arg).file

\* The document a call writes: the one it computed from the text it read,
\* whatever the file holds by the time of the write.
written_document(op, read, current, arg) == mutator_call(op, read, arg).file

\* A call that has not started, with the entry it is to add.
Waiting(arg) == [arg |-> arg, pc |-> "start", read |-> MissingFile, wrote |-> FALSE]

\* Two calls of one mutator on one file, and the calls that wrote, in the order
\* of their writes.
Writers(op, first, second) ==
    [op |-> op, calls |-> <<Waiting(first), Waiting(second)>>, writes |-> <<>>]

\* A call checks that the file exists, reads it and computes its document in
\* memory: it is done if it raised or has nothing to write.
mutator_read(i) ==
    /\ writers.calls[i].pc = "start"
    /\ LET file == shared_file(writers.op)
           done == mutator_call(writers.op, file, writers.calls[i].arg)
       IN writers' = [writers EXCEPT
                         !.calls[i].read = file,
                         !.calls[i].pc = IF done.wrote THEN "read" ELSE "done"]
    /\ UNCHANGED <<pyproject, langgraph, last, naming, disk, call, flow, generated>>

\* The call writes its document: its only write.
mutator_write(i) ==
    /\ writers.calls[i].pc = "read"
    /\ LET text == written_document(writers.op, writers.calls[i].read,
                                    shared_file(writers.op), writers.calls[i].arg)
       IN IF writers.op = "update_workspace_members"
          THEN pyproject' = text /\ UNCHANGED langgraph
          ELSE langgraph' = text /\ UNCHANGED pyproject
    /\ writers' = [writers EXCEPT !.calls[i].pc = "done",
                                  !.calls[i].wrote = TRUE,
                                  !.writes = Append(@, i)]
    /\ UNCHANGED <<last, naming, disk, call, flow, generated>>

\* ---------------------------------------------------------- initial files

MemberPaths == 0..MaxCast

DependencyPaths == 0..MaxCast

GraphEntries ==
    {[key |-> c, ref |-> r] : c \in Casts, r \in {"graph.py", "entry"}}

MissingManifest == [exists |-> FALSE, content |-> <<>>]

ProjectTable == <<Tok("[project]"), NL, Tok("name"), NL, NL>>

RuffTable == <<Tok("[tool.ruff]"), NL, Tok("line-length"), NL>>

\* Member arrays whose text holds no "]" before the closing one.
MemberArrays ==
    {MembersTok(items, style) :
        items \in SeqsUpTo(MemberPaths, MaxLen),
        style \in MemberStyles \ {"with_bracket_comment"}}

\* The [tool.uv.workspace] table with another key beside the member array: the
\* array after the other key, and before it.
KeyedWorkspace ==
    UNION {{<<Tok("[tool.uv.workspace]"), NL, Tok("exclude"), NL, m, NL>>,
            <<Tok("[tool.uv.workspace]"), NL, m, NL, Tok("exclude"), NL>>} :
           m \in MemberArrays}

\* The table under a header that carries a comment.
CommentedWorkspace ==
    {<<Tok("[tool.uv.workspace]"), Tok("comment"), NL, m, NL>> : m \in MemberArrays}

\* The table with the member array alone.
PlainWorkspace == {<<Tok("[tool.uv.workspace]"), NL, m, NL>> : m \in MemberArrays}

\* The table with a member array that has a comment holding "]".
BracketCommentWorkspace ==
    {<<Tok("[tool.uv.workspace]"), NL, MembersTok(items, "with_bracket_comment"), NL>> :
        items \in SeqsUpTo(MemberPaths, MaxLen)}

\* No member array: no table, an empty table, a table with another key only.
WorkspaceWithoutMembers ==
    {<<>>,
     <<Tok("[tool.uv.workspace]"), NL>>,
     <<Tok("[tool.uv.workspace]"), NL, Tok("exclude"), NL>>}

\* The documents with one of the given tables, alone and before another table.
ManifestFilesWith(sections) ==
    {[exists |-> TRUE, content |-> ProjectTable \o w \o t] :
        w \in sections, t \in {<<>>, RuffTable}}

UnreadableManifest == [exists |-> TRUE, content |-> ProjectTable \o <<Tok("junk")>>]

JsonText(style, keys, dependencies, graphs, env) ==
    [style |-> style, keys |-> keys, dependencies |-> dependencies,
     graphs |-> graphs, env |-> env]

MissingRegistry == [exists |-> FALSE, content |-> JsonText("", <<>>, <<>>, <<>>, "")]

\* Registry documents: any dependency list beside a small graphs object, any
\* graphs object (repeated keys included) beside a small dependency list, with
\* and without an unrelated top-level key, the keys in several orders.
RegistryData ==
    {JsonText("", <<>>, <<>>, <<>>, ""), JsonText("", <<"env">>, <<>>, <<>>, ".env")}
    \cup {JsonText("", <<"env", "dependencies">>, d, <<>>, ".env") :
             d \in SeqsUpTo(DependencyPaths, MaxLen)}
    \cup {JsonText("", <<"graphs">>, <<>>, g, "") : g \in SeqsUpTo(GraphEntries, MaxLen)}
    \cup {JsonText("", <<"dependencies", "graphs">>, d, g, "") :
             d \in SeqsUpTo(DependencyPaths, MaxLen), g \in SeqsUpTo(GraphEntries, 1)}
    \cup {JsonText("", <<"graphs", "env", "dependencies">>, d, g, ".env") :
             d \in SeqsUpTo(DependencyPaths, 1), g \in SeqsUpTo(GraphEntries, MaxLen)}

\* The registry documents written in one layout.
RegistryFilesIn(style) ==
    {[exists |-> TRUE, content |-> [d EXCEPT !.style = style]] : d \in RegistryData}

UnreadableRegistry ==
    [exists |-> TRUE, content |-> JsonText("malformed", <<>>, <<>>, <<>>, "")]

NoCall ==
    [op |-> "none", arg |-> 0, outcome |-> "", wrote |-> FALSE, members |-> <<>>,
     prePy |-> pyproject, preLg |-> langgraph,
     prevOp |-> "none", prevArg |-> 0, prevOutcome |-> ""]

\* The characters names are drawn from: a lower-case and an upper-case letter, a
\* digit, a space, both separators, a symbol and a letter outside ASCII.
Alphabet == {"a", "B", "1", " ", "-", "_", "!", "é"}

MyCoolProject ==
    <<"M", "y", " ", "C", "o", "o", "l", " ", "P", "r", "o", "j", "e", "c", "t">>

\* "My Cool Project", "123!!!", "Été", "_my--act!" and "<U+0130>stanbul Act".
Examples ==
    {MyCoolProject,
     <<"1", "2", "3", "!", "!", "!">>,
     <<"É", "t", "é">>,
     <<"_", "m", "y", "-", "-", "a", "c", "t", "!">>,
     <<DottedI, "s", "t", "a", "n", "b", "u", "l", " ", "A", "c", "t">>}

NameInputs == SeqsUpTo(Alphabet, MaxName) \cup Examples

NotCalled(raw) == [input |-> raw, called |-> FALSE, result |-> NoVariants("")]

NoNaming == NotCalled(<<>>)

\* Files a directory holds before any render.
StaleProject == {File("", "pyproject.toml", "stale"), File("", "notes.md", "stale")}

StaleNotes == {File("", "notes.md", "stale")}

\* The target and a second directory next to it, each absent or holding files
\* of an earlier time; their parent exists if one of them does.
InitialDisks ==
    {[parent |-> p, target |-> t, other |-> o, staging |-> Absent] :
        <<p, t, o>> \in
            {x \in BOOLEAN \X ({Absent} \cup {Dir(fs) : fs \in SUBSET StaleProject})
                           \X {Absent, Dir({}), Dir(StaleNotes), Dir(StaleProject)} :
                (x[2].exists \/ x[3].exists) => x[1]}}

NoDisk == [parent |-> FALSE, target |-> Absent, other |-> Absent, staging |-> Absent]

\* The context of a render: with the key cast_snake, or without it.
Contexts ==
    {[cast_snake |-> "cast_snake", language |-> "en"], [language |-> "kr"]}

MissingTemplate == [exists |-> FALSE, top |-> "target", hasCast |-> FALSE]

\* A template: whether it is there, the directory its top-level folder renders
\* to (the target, or one of another name next to it) and whether it has the
\* package casts/{{ cookiecutter.cast_snake }}.
Templates ==
    {MissingTemplate}
    \cup {[exists |-> TRUE, top |-> t, hasCast |-> h] :
              t \in {"target", "other"}, h \in BOOLEAN}

\* What the file system does to a call: nothing, or it fails the removal of the
\* old target (before the first file, or at the directory itself when its files
\* are gone), the rendering, or the move or rename to the target.
Faults == {"none", "rmtree", "render", "move"}

NoRender ==
    [op |-> "none", template |-> MissingTemplate, context |-> [language |-> "en"],
     fault |-> "none", outcome |-> "", steps |-> <<>>, pre |-> disk,
     repeated |-> FALSE]


\* Nobody writes.
NoWriters == <<>>

\* The names flows are given: of one word, of two, of no letter or digit.
FlowNames == {<<"a">>, <<"a", " ", "B">>, <<"!">>}

\* No flow has run yet, with the names the flows will be given.
NotRun(target, act_name, cast_name) ==
    [op |-> "none", target |-> target, act_name |-> act_name, cast_name |-> cast_name,
     stages |-> <<>>, outcome |-> "", rendered |-> NoProject,
     pre |-> disk, prePy |-> pyproject, preLg |-> langgraph]

NoFlow == NotRun("", <<>>, <<>>)

\* The manifests and registries of an Act project a cast is added to.
FlowManifests ==
    {[exists |-> TRUE, content |-> ProjectTable \o w] :
        w \in WorkspaceWithoutMembers
              \cup {<<Tok("[tool.uv.workspace]"), NL, MembersTok(items, style), NL>> :
                       items \in SeqsUpTo(MemberPaths, 1),
                       style \in {"canonical"}}}
    \cup {UnreadableManifest}

FlowRegistries ==
    {[exists |-> TRUE,
      content |-> JsonText("indent2", <<"dependencies", "graphs">>, r[1], r[2], "")] :
        r \in {x \in SeqsUpTo(DependencyPaths, 1)
                      \X SeqsUpTo({e \in GraphEntries : e.ref = "graph.py"}, 1) :
                  x[2] # <<>> => x[1] = <<x[2][1].key>>}}
    \cup {UnreadableRegistry}

\* The target of a flow: absent, empty, or holding a file.
FlowDisks ==
    {[parent |-> TRUE, target |-> t, other |-> Absent, staging |-> Absent] :
        t \in {Absent, Dir({}), Dir(StaleNotes)}}

\* ---------------------------------------------------------- specifications

InitManifest ==
    /\ \/ pyproject \in ManifestFilesWith(KeyedWorkspace)
       \/ pyproject \in ManifestFilesWith(CommentedWorkspace)
       \/ pyproject \in ManifestFilesWith(PlainWorkspace)
       \/ pyproject \in ManifestFilesWith(BracketCommentWorkspace)
       \/ pyproject \in ManifestFilesWith(WorkspaceWithoutMembers)
       \/ pyproject \in {UnreadableManifest, MissingManifest}
    /\ langgraph = MissingRegistry
    /\ last = NoCall
    /\ naming = NoNaming /\ disk = NoDisk /\ call = NoRender
    /\ flow = NoFlow /\ generated = NoProject /\ writers = NoWriters

InitRegistry ==
    /\ pyproject = MissingManifest
    /\ \/ langgraph \in RegistryFilesIn("compact")
       \/ langgraph \in RegistryFilesIn("indent2")
       \/ langgraph \in {UnreadableRegistry, MissingRegistry}
    /\ last = NoCall
    /\ naming = NoNaming /\ disk = NoDisk /\ call = NoRender
    /\ flow = NoFlow /\ generated = NoProject /\ writers = NoWriters

Init == InitManifest \/ InitRegistry

NextManifest == \E new_member \in MemberPaths : update_workspace_members(new_member)

NextRegistry == \E cast_snake \in Casts : update_langgraph_registry(cast_snake)

Next == NextManifest \/ NextRegistry

SpecManifest == InitManifest /\ [][NextManifest]_vars

SpecRegistry == InitRegistry /\ [][NextRegistry]_vars

Spec == Init /\ [][Next]_vars

InitNames ==
    /\ pyproject = MissingManifest /\ langgraph = MissingRegistry /\ last = NoCall
    /\ naming \in {NotCalled(raw) : raw \in NameInputs}
    /\ disk = NoDisk /\ call = NoRender
    /\ flow = NoFlow /\ generated = NoProject /\ writers = NoWriters

NextNames == NameNormalizer

SpecNames == InitNames /\ [][NextNames]_vars

InitRender ==
    /\ pyproject = MissingManifest /\ langgraph = MissingRegistry /\ last = NoCall
    /\ naming = NoNaming
    /\ disk \in InitialDisks
    /\ call = NoRender
    /\ flow = NoFlow /\ generated = NoProject /\ writers = NoWriters

\* The project template has the cast package; the cast renderer renders into
\* the staging root, whatever the top-level folder is called.
NextRender ==
    \/ \E template \in {t \in Templates : t.exists => t.hasCast},
          context \in Contexts, fault \in Faults :
           render_cookiecutter_template(template, context, fault)
    \/ \E template \in {t \in Templates : t.top = "target"},
          context \in Contexts, fault \in Faults :
           render_cookiecutter_cast_subproject(template, context, fault)

SpecRender == InitRender /\ [][NextRender]_vars

\* A new project is generated next to whatever is there.
InitProjectFlow ==
    /\ pyproject = MissingManifest /\ langgraph = MissingRegistry
    /\ disk \in {d \in InitialDisks : d.parent}
    /\ flow \in {NotRun("project", <<"a">>, cast_name) : cast_name \in FlowNames}

\* A cast is added to an existing project.
InitCastFlow ==
    /\ pyproject \in FlowManifests
    /\ langgraph \in FlowRegistries
    /\ disk \in FlowDisks
    /\ flow \in {NotRun("cast", <<"a">>, cast_name) : cast_name \in FlowNames}

InitFlow ==
    /\ InitProjectFlow \/ InitCastFlow
    /\ last = NoCall /\ naming = NoNaming /\ call = NoRender
    /\ generated = NoProject /\ writers = NoWriters

NextFlow ==
    \/ \E language \in {"en", "fr"},
          template \in {t \in Templates : t.exists => t.hasCast},
          fault \in Faults :
           _generate_project(language, template, fault)
    \/ \E language \in {"en", "fr"},
          template \in {t \in Templates : t.top = "target"},
          fault \in Faults :
           _generate_cast_project(language, template, fault)

SpecFlow == InitFlow /\ [][NextFlow]_vars

\* Two calls that add different entries to one file.
InitRace ==
    /\ \/ /\ pyproject \in FlowManifests /\ langgraph = MissingRegistry
          /\ writers \in {Writers("update_workspace_members", x[1], x[2]) :
                              x \in {y \in MemberPaths \X MemberPaths : y[1] # y[2]}}
       \/ /\ pyproject = MissingManifest /\ langgraph \in FlowRegistries
          /\ writers \in {Writers("update_langgraph_registry", x[1], x[2]) :
                              x \in {y \in Casts \X Casts : y[1] # y[2]}}
    /\ last = NoCall /\ naming = NoNaming /\ disk = NoDisk /\ call = NoRender
    /\ flow = NoFlow /\ generated = NoProject

NextRace ==
    \/ \E i \in {1, 2} : mutator_read(i)
    \/ \E i \in {1, 2} : mutator_write(i)

SpecRace == InitRace /\ [][NextRace]_vars

\* ------------------------------------------------------------- properties

IsRegistryCall == last.op = "update_langgraph_registry"

IsManifestCall == last.op = "update_workspace_members"

\* The registry as json.loads reads it; an empty document when there is none to read.
Parsed(file) ==
    IF file.exists /\ JsonValid(file.content) THEN _load_json_file(file.content)
    ELSE [keys |-> <<>>, dependencies |-> <<>>, graphs |-> <<>>, env |-> ""]

RefOf(graphs, k) == graphs[GraphIndex(graphs, k)].ref

\* C1: set-if-absent.  After any update_langgraph_registry call, every key that
\* the graphs mapping held before the call is still there with the same value;
\* an entry of the mapping after the call that was not there before is the
\* default entry of the call's identifier.
C1_SetIfAbsent ==
    IsRegistryCall =>
        LET before == Parsed(last.preLg).graphs
            after == Parsed(langgraph).graphs
        IN /\ \A k \in Casts :
                 GraphIndex(before, k) # 0 =>
                    /\ GraphIndex(after, k) # 0
                    /\ RefOf(after, k) = RefOf(before, k)
           /\ \A k \in Casts :
                 (GraphIndex(after, k) # 0 /\ GraphIndex(before, k) = 0) =>
                    /\ k = last.arg
                    /\ RefOf(after, k) = graph_reference(k)

\* A call for an identifier whose entry point had been hand-edited, after an
\* earlier call, has happened and the edit is still there.
C1_Witness ==
    /\ IsRegistryCall /\ last.outcome = "ok"
    /\ last.prevOp = "update_langgraph_registry"
    /\ GraphIndex(Parsed(last.preLg).graphs, last.arg) # 0
    /\ RefOf(Parsed(last.preLg).graphs, last.arg) = custom_reference(last.arg)
    /\ RefOf(Parsed(langgraph).graphs, last.arg) = custom_reference(last.arg)

\* C2: registry mutation is idempotent.  A second update_langgraph_registry call
\* for the same identifier, right after a first one, ends as the first did and
\* leaves the file byte-identical to what the first call left.
C2_RegistryIdempotent ==
    (/\ IsRegistryCall
     /\ last.prevOp = "update_langgraph_registry"
     /\ last.prevArg = last.arg)
    => /\ langgraph = last.preLg
       /\ last.outcome = last.prevOutcome

\* A second call for the same identifier has happened on a document that the
\* first call had to rewrite into the serializer's layout.
C2_Witness ==
    /\ IsRegistryCall /\ last.outcome = "ok"
    /\ last.prevOp = "update_langgraph_registry"
    /\ last.prevArg = last.arg /\ last.prevOutcome = "ok"
    /\ Contains(langgraph.content.dependencies, cast_dependency(last.arg))
    /\ Len(langgraph.content.dependencies) >= 3

PreMembers == _extract_workspace_members(last.prePy.content)

\* C3 (as claimed): manifest mutation is idempotent.  A second
\* update_workspace_members call for the same member, right after a first one
\* that succeeded, succeeds too and leaves the file byte-identical.
C3_ManifestIdempotent ==
    (/\ IsManifestCall
     /\ last.prevOp = "update_workspace_members"
     /\ last.prevArg = last.arg
     /\ last.prevOutcome = "ok")
    => /\ last.outcome = "ok"
       /\ pyproject = last.prePy

\* C4 (as claimed): after every successful update_workspace_members call the
\* manifest's member list is sorted and has no duplicates, whatever it was before.
C4_AlwaysSortedUnique ==
    (IsManifestCall /\ last.outcome = "ok")
    => /\ IsSorted(_extract_workspace_members(pyproject.content))
       /\ NoDuplicates(_extract_workspace_members(pyproject.content))

\* C4 (amended): after a successful update_workspace_members call on a manifest
\* whose member list had no duplicates and, if it already held the new member,
\* was sorted, the member list the call leaves is sorted and has no duplicates:
\* the list of the document as it was when nothing is written, else the list
\* serialized into the member-list block that the call writes.
C4_SortedUnique ==
    (/\ IsManifestCall /\ last.outcome = "ok"
     /\ NoDuplicates(PreMembers)
     /\ (Contains(PreMembers, last.arg) => IsSorted(PreMembers)))
    => /\ IsSorted(last.members)
       /\ NoDuplicates(last.members)
       /\ Contains(last.members, last.arg)
       /\ IF last.wrote
          THEN Contains(pyproject.content, _format_members_section(last.members))
          ELSE last.members = PreMembers /\ pyproject = last.prePy

\* A call that had to put the new member in front of the members already there.
C4_Witness ==
    /\ IsManifestCall /\ last.outcome = "ok" /\ last.wrote
    /\ NoDuplicates(PreMembers)
    /\ Len(PreMembers) >= 2
    /\ ~IsSorted(PreMembers)
    /\ last.members[1] = last.arg

PreDependencies == Parsed(last.preLg).dependencies

OutsideMembersUnchanged(before, after) ==
    LET m == MembersIndex(before)
    IN IF m # 0
       THEN /\ Len(after) = Len(before)
            /\ after[m].tok = "members"
            /\ \A i \in 1..Len(before) : i # m => after[i] = before[i]
       ELSE \E k \in 0..Len(before) : \E n \in 1..(Len(after) - Len(before)) :
               /\ n = Len(after) - Len(before)
               /\ SubSeq(after, 1, k) = SubSeq(before, 1, k)
               /\ SubSeq(after, k + n + 1, Len(after)) = SubSeq(before, k + 1, Len(before))
               /\ \A i \in (k + 1)..(k + n) :
                     after[i].tok \in {"members", "[tool.uv.workspace]", "nl"}

\* C6 (as claimed): update_workspace_members re-serializes only the member-list
\* block; every part of the document outside it is the same before and after.
C6_OnlyMembersBlock ==
    (IsManifestCall /\ last.outcome = "ok")
    => IF last.wrote
       THEN OutsideMembersUnchanged(last.prePy.content, pyproject.content)
       ELSE pyproject = last.prePy

\* C7: update_langgraph_registry preserves unrelated content.  After any call,
\* every top-level key the document had is still there, in the same order, the
\* unrelated key with the same value; every dependency path and every graphs
\* entry it had is still there, the entry with the same value.  A call that
\* fails leaves the file as it was.
C7_RegistryPreserves ==
    IsRegistryCall =>
        LET before == Parsed(last.preLg)
            after == Parsed(langgraph)
        IN /\ Len(after.keys) >= Len(before.keys)
           /\ SubSeq(after.keys, 1, Len(before.keys)) = before.keys
           /\ after.env = before.env
           /\ Elems(before.dependencies) \subseteq Elems(after.dependencies)
           /\ \A k \in Casts :
                 GraphIndex(before.graphs, k) # 0 =>
                    /\ GraphIndex(after.graphs, k) # 0
                    /\ RefOf(after.graphs, k) = RefOf(before.graphs, k)
           /\ last.outcome # "ok" => langgraph = last.preLg

\* A call that added a dependency path and a graphs entry to a document holding
\* an unrelated key, another dependency path and another component's entry.
C7_Witness ==
    /\ IsRegistryCall /\ last.outcome = "ok"
    /\ HasKey(Parsed(last.preLg), "env")
    /\ \E d \in Elems(PreDependencies) : d # 0 /\ d # cast_dependency(last.arg)
    /\ ~Contains(PreDependencies, cast_dependency(last.arg))
    /\ \E k \in Casts : k # last.arg /\ GraphIndex(Parsed(last.preLg).graphs, k) # 0
    /\ GraphIndex(Parsed(last.preLg).graphs, last.arg) = 0
    /\ GraphIndex(Parsed(langgraph).graphs, last.arg) # 0

ManifestEntryPresent ==
    /\ IsManifestCall /\ last.outcome = "ok"
    /\ Contains(PreMembers, last.arg)

RegistryEntryPresent ==
    /\ IsRegistryCall /\ last.outcome = "ok"
    /\ Contains(PreDependencies, cast_dependency(last.arg))
    /\ GraphIndex(Parsed(last.preLg).graphs, last.arg) # 0

\* C8 (as claimed): when the entry to add is already in the document, the file
\* after the call is the same text as before it, for both mutators and whatever
\* the document's formatting.
C8_NoOpWhenPresent ==
    /\ ManifestEntryPresent => pyproject = last.prePy
    /\ RegistryEntryPresent => langgraph = last.preLg

\* The registry text is what _save_json_file writes for its own content.
IsSerializerOutput(text) == _save_json_file(_load_json_file(text)) = text

\* C8 (amended): when the entry to add is already in the document,
\* update_workspace_members writes nothing and the file stays the same text;
\* update_langgraph_registry rewrites the file with the same parsed content (the
\* same keys in the same order, the same dependency list, the same graphs
\* mapping), in the layout of json.dumps(indent=2), so the text is the same
\* exactly when the document was already written that way.
C8_NoOpContent ==
    /\ ManifestEntryPresent => (pyproject = last.prePy /\ ~last.wrote)
    /\ RegistryEntryPresent =>
          /\ Parsed(langgraph) = Parsed(last.preLg)
          /\ langgraph.content.style = "indent2"
          /\ (langgraph = last.preLg) <=> IsSerializerOutput(last.preLg.content)

\* A call for a component already registered, on a registry written in another
\* layout, has rewritten the file.
C8_Witness ==
    /\ RegistryEntryPresent
    /\ last.preLg.content.style = "compact"
    /\ langgraph # last.preLg

\* C9 (as claimed): after a successful update_workspace_members(m) on a valid
\* manifest whose member list L does not hold m, the document is still valid and
\* its member list, parsed again, is sorted(L plus m).
C9_RewrittenListIsSortedUnion ==
    (/\ IsManifestCall /\ last.outcome = "ok"
     /\ ~Contains(PreMembers, last.arg))
    => /\ TomlValid(pyproject.content)
       /\ _extract_workspace_members(pyproject.content) = Sort(Append(PreMembers, last.arg))

\* C10: the mutators never create their document.  A call on a path where no
\* file exists ends with ConfigNotFoundError, writes nothing, and the file still
\* does not exist.
C10_NeverCreates ==
    /\ (IsManifestCall /\ ~last.prePy.exists) =>
          /\ last.outcome = ConfigNotFoundError
          /\ ~last.wrote
          /\ pyproject = last.prePy
    /\ (IsRegistryCall /\ ~last.preLg.exists) =>
          /\ last.outcome = ConfigNotFoundError
          /\ ~last.wrote
          /\ langgraph = last.preLg

\* Both mutators have been called on missing files, one after the other.
C10_Witness ==
    /\ IsRegistryCall /\ ~last.preLg.exists
    /\ last.prevOp = "update_workspace_members" /\ ~last.prePy.exists
    /\ last.prevOutcome = ConfigNotFoundError

\* C23: a mutator call writes its document at most once, and only after the
\* existence check, the read, the parse and the modification in memory have
\* succeeded; a call that fails before the write (missing file, unparseable
\* content) leaves the document as it was, so that it can be retried.
C23_SingleLateWrite ==
    (IsManifestCall \/ IsRegistryCall) =>
        /\ last.wrote => last.outcome = "ok"
        /\ last.outcome # "ok" =>
              /\ last.outcome \in {ConfigNotFoundError, ConfigParseError}
              /\ pyproject = last.prePy /\ langgraph = last.preLg
        /\ ~last.wrote => (pyproject = last.prePy /\ langgraph = last.preLg)
        /\ (IsManifestCall /\ last.prePy = UnreadableManifest) =>
              last.outcome = ConfigParseError
        /\ (IsRegistryCall /\ last.preLg = UnreadableRegistry) =>
              last.outcome = ConfigParseError
        /\ IsManifestCall => langgraph = last.preLg
        /\ IsRegistryCall => pyproject = last.prePy

\* The registry mutator failed on an unreadable document and was tried again.
C23_Witness ==
    /\ IsRegistryCall /\ last.preLg = UnreadableRegistry
    /\ last.outcome = ConfigParseError
    /\ last.prevOp = "update_langgraph_registry" /\ last.prevArg = last.arg
    /\ last.prevOutcome = ConfigParseError

\* The graphs object as a mapping from key to value.
GraphMapping(graphs) == {<<graphs[i].key, graphs[i].ref>> : i \in 1..Len(graphs)}

\* C30: registration order does not matter: for two distinct components A and B
\* and a valid manifest and registry, the mutators for A and then for B give
\* the same member list, the same dependency list and the same graphs mapping
\* (as a mapping from key to value) as for B and then for A.
C30_OrderIrrelevant ==
    \A a \in Casts : \A b \in Casts \ {a} :
        /\ (pyproject.exists /\ TomlValid(pyproject.content)) =>
              LET ab == workspace_members_call(
                            workspace_members_call(pyproject, workspace_member(a)).file,
                            workspace_member(b))
                  ba == workspace_members_call(
                            workspace_members_call(pyproject, workspace_member(b)).file,
                            workspace_member(a))
              IN /\ ab.outcome = "ok" /\ ba.outcome = "ok"
                 /\ ab.members = ba.members
        /\ (langgraph.exists /\ JsonValid(langgraph.content)) =>
              LET ab == langgraph_registry_call(
                            langgraph_registry_call(langgraph, a).file, b)
                  ba == langgraph_registry_call(
                            langgraph_registry_call(langgraph, b).file, a)
              IN /\ ab.outcome = "ok" /\ ba.outcome = "ok"
                 /\ Parsed(ab.file).dependencies = Parsed(ba.file).dependencies
                 /\ GraphMapping(Parsed(ab.file).graphs)
                        = GraphMapping(Parsed(ba.file).graphs)

\* ------------------------------------------------------- flow properties

IsCastFlow == flow.op = "_generate_cast_project"

IsProjectFlow == flow.op = "_generate_project"

\* The stages of _generate_cast_project, in the order of its statements.
CastStages == <<"names", "check", "scaffold", "language", "render", "manifest", "registry">>

Ran(stage) == \E i \in 1..Len(flow.stages) : flow.stages[i].stage = stage

Passed(stage) ==
    \E i \in 1..Len(flow.stages) :
        flow.stages[i].stage = stage /\ flow.stages[i].outcome = "ok"

\* C22: in _generate_cast_project the stages run strictly in the order name
\* normalization, staged render, manifest update, registry update, and a stage
\* that fails is the last one: nothing is rendered after a name failure, no
\* manifest or registry is written after a render failure, no registry is
\* written after a manifest failure.
C22_StagesInOrder ==
    IsCastFlow =>
        /\ Len(flow.stages) <= Len(CastStages)
        /\ \A i \in 1..Len(flow.stages) : flow.stages[i].stage = CastStages[i]
        /\ \A i \in 1..(Len(flow.stages) - 1) : flow.stages[i].outcome = "ok"
        /\ ~Passed("names") => ~Ran("render") /\ disk = flow.pre
        /\ ~Passed("render") => pyproject = flow.prePy /\ langgraph = flow.preLg
        /\ ~Passed("manifest") => ~Ran("registry") /\ langgraph = flow.preLg

\* C22's case: the cast was rendered, the manifest update failed and the flow
\* ended there.
C22_Witness ==
    /\ IsCastFlow /\ Passed("render")
    /\ Ran("manifest") /\ ~Passed("manifest")
    /\ disk.target.exists /\ disk.target.files # {}

\* C25: a flow whose target exists and is not empty aborts before it calls the
\* renderer, in _generate_project and in _generate_cast_project: nothing is
\* rendered and the target is not wiped.
C25_OverwriteCheckedFirst ==
    (flow.op # "none" /\ flow.pre.target.exists /\ flow.pre.target.files # {}) =>
        /\ ~Ran("render")
        /\ flow.outcome # "ok"
        /\ disk = flow.pre

\* C25's case: a flow came to the check with a target that held a file.
C25_Witness ==
    /\ flow.op # "none"
    /\ flow.pre.target.exists /\ flow.pre.target.files # {}
    /\ Ran("check") /\ flow.outcome = Exit

\* Whether the manifest lists casts/<cast_snake>, for the cast of that rank.
ManifestLists(file, cast) ==
    /\ file.exists /\ TomlValid(file.content)
    /\ Contains(_extract_workspace_members(file.content), workspace_member(cast))

\* Whether the registry has the dependency ./casts/<cast_snake> and the graphs
\* key <cast_snake>.
RegistryLists(file, cast) ==
    /\ file.exists /\ JsonValid(file.content)
    /\ Contains(_load_json_file(file.content).dependencies, cast_dependency(cast))
    /\ GraphIndex(_load_json_file(file.content).graphs, cast) # 0

Agree(manifest, registry, cast) ==
    ManifestLists(manifest, cast) <=> RegistryLists(registry, cast)

\* The rank of the cast the flows of the behaviour are about.
FlowCast == CastRank(build_name_variants(flow.cast_name).snake)

\* C27: manifest and registry stay consistent: if they agree on the cast before
\* _generate_cast_project, they agree on it after the flow, however it ended.
C27_ManifestRegistryConsistent ==
    (/\ IsCastFlow /\ Ran("check")
     /\ Agree(flow.prePy, flow.preLg, FlowCast)) =>
        Agree(pyproject, langgraph, FlowCast)

\* C24: when the rendered project has casts/<cast_slug> and the slug is not the
\* snake name, then after _normalize_cast_directory casts/<cast_slug> is gone,
\* casts/<cast_snake> is there and neither pyproject.toml nor langgraph.json
\* holds a reference to casts/<cast_slug>; when the slug is the snake name,
\* nothing is renamed and neither file is rewritten.
C24_NamesReconciled ==
    (IsProjectFlow /\ Passed("reconcile")) =>
        LET cast == build_name_variants(flow.cast_name)
        IN /\ (cast.slug \in flow.rendered.casts /\ cast.slug # cast.snake) =>
                  /\ cast.slug \notin generated.casts
                  /\ cast.snake \in generated.casts
                  /\ ~str_contains(generated.pyproject.content, casts_path(cast.slug))
                  /\ ~str_contains(generated.langgraph.content, casts_path(cast.slug))
           /\ cast.slug = cast.snake => generated = flow.rendered

\* ------------------------------------------------------- race properties

BothDone == \A i \in {1, 2} : writers.calls[i].pc = "done"

BothWrote == \A i \in {1, 2} : writers.calls[i].wrote

LastWriter == writers.calls[writers.writes[Len(writers.writes)]]

FirstWriter == writers.calls[writers.writes[1]]

\* Whether the file lists the entry a call was to add.
Lists(op, file, arg) ==
    IF op = "update_workspace_members"
    THEN ManifestLists(file, arg)
    ELSE /\ file.exists /\ JsonValid(file.content)
         /\ Contains(_load_json_file(file.content).dependencies, cast_dependency(arg))

\* C26: two calls of a mutator that add different entries to the same file at
\* the same time: the file ends as exactly the document the call that wrote last
\* computed from the text it had read, never a merge of the two documents.
C26_LastWriterWins ==
    (BothDone /\ writers.writes # <<>>) =>
        shared_file(writers.op) =
            mutator_call(writers.op, LastWriter.read, LastWriter.arg).file

\* C26's case, the lost update: both calls wrote, the second had read the file
\* before the first wrote, and the entry of the first is not in the file, which
\* lists the entry of the second.
C26_Witness ==
    /\ BothDone /\ BothWrote
    /\ LastWriter.read = FirstWriter.read
    /\ ~Lists(writers.op, shared_file(writers.op), FirstWriter.arg)
    /\ Lists(writers.op, shared_file(writers.op), LastWriter.arg)
    /\ Lists(writers.op,
             mutator_call(writers.op, FirstWriter.read, FirstWriter.arg).file,
             FirstWriter.arg)

\* ------------------------------------------------------- name properties

Succeeded == naming.called /\ naming.result.outcome = "ok"

Rejected == naming.called /\ naming.result = NoVariants(InvalidNameError)

\* Not empty, no separator at either end, no two separators in a row.
WellSeparated(name, separator) ==
    /\ name # <<>>
    /\ name[1] # separator
    /\ name[Len(name)] # separator
    /\ \A i \in 1..(Len(name) - 1) : ~(name[i] = separator /\ name[i + 1] = separator)

\* C11: whenever build_name_variants succeeds, slug and snake are non-empty,
\* have no two consecutive separators and no leading or trailing separator.
C11_SeparatorsWellFormed ==
    Succeeded => /\ WellSeparated(naming.result.slug, "-")
                 /\ WellSeparated(naming.result.snake, "_")

\* A successful call on a name that starts and ends with a character that is
\* replaced by the separator and has two of them in a row inside.
C11_Witness ==
    /\ Succeeded
    /\ ~isalnum(naming.input[1])
    /\ ~isalnum(naming.input[Len(naming.input)])
    /\ \E i \in 2..(Len(naming.input) - 3) :
          /\ isalnum(naming.input[i - 1])
          /\ ~isalnum(naming.input[i]) /\ ~isalnum(naming.input[i + 1])
          /\ isalnum(naming.input[i + 2])

\* A valid identifier as the spec has it: a letter first, then letters, digits
\* and underscores.
IsIdentifier(name) ==
    /\ name # <<>>
    /\ isalpha(name[1])
    /\ \A i \in 1..Len(name) : isalnum(name[i]) \/ name[i] = "_"

\* C12: whenever build_name_variants succeeds, pascal is a valid identifier; a
\* name whose pascal form is no identifier fails with InvalidNameError.
C12_PascalIsIdentifier == Succeeded => IsIdentifier(naming.result.pascal)

\* The spec's charset policy on the trimmed name: not empty, a letter first,
\* then only letters, digits, spaces, hyphens and underscores.
MeetsCharsetPolicy(raw) ==
    LET trimmed == strip(raw, Whitespace)
    IN /\ trimmed # <<>>
       /\ isalpha(trimmed[1])
       /\ \A i \in 1..Len(trimmed) :
             isalnum(trimmed[i]) \/ trimmed[i] \in {" ", "-", "_"}

\* C13: build_name_variants fails with InvalidNameError, and gives no variants,
\* for every name whose trimmed form is empty, does not start with a letter, or
\* has a character other than letters, digits, spaces, hyphens and underscores.
C13_InvalidNamesRejected ==
    (naming.called /\ ~MeetsCharsetPolicy(naming.input)) => Rejected

\* The reference derivation of the variants, by words.  The words of a name are
\* its maximal runs of characters that pass the test; Split cuts a name at
\* every occurrence of a character (empty words included) and Join puts the
\* words together again with a separator between them.
RECURSIVE WordsOf(_, _, _)
WordsOf(name, InWord(_), word) ==
    IF name = <<>> THEN (IF word = <<>> THEN <<>> ELSE <<word>>)
    ELSE IF InWord(name[1]) THEN WordsOf(Tail(name), InWord, Append(word, name[1]))
    ELSE (IF word = <<>> THEN <<>> ELSE <<word>>) \o WordsOf(Tail(name), InWord, <<>>)

RECURSIVE Split(_, _, _)
Split(name, at, word) ==
    IF name = <<>> THEN <<word>>
    ELSE IF name[1] = at THEN <<word>> \o Split(Tail(name), at, <<>>)
    ELSE Split(Tail(name), at, Append(word, name[1]))

RECURSIVE Join(_, _)
Join(words, separator) ==
    IF words = <<>> THEN <<>>
    ELSE IF Len(words) = 1 THEN words[1]
    ELSE words[1] \o separator \o Join(Tail(words), separator)

Lowered(word) == IF word = <<>> THEN <<>> ELSE Join([i \in 1..Len(word) |-> lower(word[i])], <<>>)

\* A word in title case: the first letter of every run of letters in upper
\* case, its other letters in lower case.
RECURSIVE TitleCased(_, _)
TitleCased(word, inLetters) ==
    IF word = <<>> THEN <<>>
    ELSE (IF ~isalpha(word[1]) THEN <<word[1]>>
          ELSE IF inLetters THEN lower(word[1]) ELSE <<upper(word[1])>>)
         \o TitleCased(Tail(word), isalpha(word[1]))

NotSpace(ch) == ch # " "

Trimmed(raw) ==
    LET inside == {i \in 1..Len(raw) : raw[i] \notin Whitespace}
    IN IF inside = {} THEN <<>>
       ELSE SubSeq(raw, CHOOSE i \in inside : \A j \in inside : i <= j,
                        CHOOSE i \in inside : \A j \in inside : j <= i)

ReferenceSeparated(raw, separator) ==
    LET words == WordsOf(Trimmed(raw), isalnum, <<>>)
    IN Join([i \in 1..Len(words) |-> Lowered(words[i])], <<separator>>)

ReferenceTitle(raw) ==
    LET spaced == [i \in 1..Len(Trimmed(raw)) |->
                      IF Trimmed(raw)[i] \in {"_", "-"} THEN " " ELSE Trimmed(raw)[i]]
        words == Split(spaced, " ", <<>>)
    IN Join([i \in 1..Len(words) |-> TitleCased(words[i], FALSE)], <<" ">>)

ReferenceVariants(raw) ==
    [outcome |-> "ok", raw |-> Trimmed(raw),
     slug |-> ReferenceSeparated(raw, "-"), snake |-> ReferenceSeparated(raw, "_"),
     title |-> ReferenceTitle(raw), pascal |-> SelectSeq(ReferenceTitle(raw), NotSpace)]

\* C14: on every name it succeeds on, build_name_variants gives the reference
\* derivation: raw the trimmed name; slug the alphanumeric characters in lower
\* case with every other character a "-", runs of "-" collapsed and stripped at
\* both ends; snake the same with "_"; title the name with "_" and "-" replaced
\* by spaces and each word title-cased; pascal the title without its spaces.
\* "My Cool Project" gives "my-cool-project", "my_cool_project",
\* "My Cool Project" and "MyCoolProject".
C14_MatchesReference ==
    /\ Succeeded => naming.result = ReferenceVariants(naming.input)
    /\ (naming.called /\ naming.input = MyCoolProject) =>
           /\ naming.result.outcome = "ok"
           /\ naming.result.raw = MyCoolProject
           /\ naming.result.slug = <<"m", "y", "-", "c", "o", "o", "l", "-",
                                     "p", "r", "o", "j", "e", "c", "t">>
           /\ naming.result.snake = <<"m", "y", "_", "c", "o", "o", "l", "_",
                                      "p", "r", "o", "j", "e", "c", "t">>
           /\ naming.result.title = MyCoolProject
           /\ naming.result.pascal = <<"M", "y", "C", "o", "o", "l",
                                       "P", "r", "o", "j", "e", "c", "t">>

\* The normalizer has been called on "My Cool Project" and has succeeded.
C14_Witness == Succeeded /\ naming.input = MyCoolProject

\* C15: the normalizer takes every letter outside ASCII as non-alphanumeric and
\* replaces it by the separator: slug and snake consist only of ASCII lower-case
\* letters, digits and the separator.
C15_NonAsciiReplaced ==
    Succeeded =>
        /\ \A i \in 1..Len(naming.result.slug) :
              \/ Contains(AsciiLower, naming.result.slug[i])
              \/ naming.result.slug[i] \in AsciiDigits \cup {"-"}
        /\ \A i \in 1..Len(naming.result.snake) :
              \/ Contains(AsciiLower, naming.result.snake[i])
              \/ naming.result.snake[i] \in AsciiDigits \cup {"_"}

\* C29: slug round trip: for every name on which build_name_variants succeeds
\* with variants v, build_name_variants(v.slug) succeeds too and gives the slug
\* and the snake of v; so the add-Component flow, which derives the project's
\* variants from the name of the project directory, gets the act_slug and the
\* act_snake the project was created with.
C29_SlugRoundTrip ==
    Succeeded =>
        LET again == build_name_variants(naming.result.slug)
        IN /\ again.outcome = "ok"
           /\ again.slug = naming.result.slug
           /\ again.snake = naming.result.snake

\* ----------------------------------------------------- render properties

IsTemplateRender == call.op = "render_cookiecutter_template"

IsCastRender == call.op = "render_cookiecutter_cast_subproject"

IndexIn(steps, step) == CHOOSE i \in 1..Len(steps) : steps[i] = step

\* C16: when the target directory exists, both renderers remove it completely
\* before any rendering or moving starts, so after a successful render the
\* target holds only rendered content and no file of the tree it had.
C16_DestructiveOverwrite ==
    ((IsTemplateRender \/ IsCastRender) /\ call.pre.target.exists) =>
        /\ call.steps[1] = "rmtree"
        /\ call.outcome = "ok" =>
              /\ disk.target.exists
              /\ \A f \in disk.target.files : f.content = call.context.language

\* C17: rendering is overwrite-idempotent: the same render twice in a row, with
\* the same template, target and context, raises no error the second time and
\* leaves the target tree the first call left.
C17_OverwriteIdempotent ==
    (/\ IsTemplateRender \/ IsCastRender
     /\ call.repeated
     /\ call.fault = "none") =>
        /\ call.outcome = "ok"
        /\ disk.target = call.pre.target

\* C18: render_cookiecutter_cast_subproject creates the staging root only after
\* the initial wipe of the target and immediately before the full render, and
\* on every exit path (success, render failure, missing sub-tree, move failure,
\* any other exception) the staging root is gone when the call returns.
C18_StagingLifetime ==
    /\ ~disk.staging.exists
    /\ IsCastRender =>
          /\ call.pre.target.exists => call.steps[1] = "rmtree"
          /\ Contains(call.steps, "mkdtemp") =>
                LET made == IndexIn(call.steps, "mkdtemp")
                IN /\ made < Len(call.steps) /\ call.steps[made + 1] = "cookiecutter"
                   /\ \A i \in made..Len(call.steps) : call.steps[i] # "rmtree"
                   /\ call.steps[Len(call.steps)] = "cleanup"
          /\ Contains(call.steps, "cookiecutter") => Contains(call.steps, "mkdtemp")

\* The cast renderer wiped an existing target, rendered into the staging root
\* and failed in the move.
C18_Witness ==
    /\ IsCastRender
    /\ call.pre.target.exists
    /\ call.fault = "move" /\ call.outcome = IOError
    /\ Contains(call.steps, "mkdtemp")

\* The cast tree a successful render leaves in the target.
CompleteCast ==
    source_cast_dir(cookiecutter(call.template, call.context, Absent))

\* C19: after render_cookiecutter_cast_subproject the target holds the complete
\* rendered cast tree (success) or, on any failure after the initial wipe, no
\* partly populated tree: a failure in the move leaves no partial copy.
C19_AllOrNothing ==
    (IsCastRender /\ call.fault # "rmtree") =>
        IF call.outcome = "ok"
        THEN disk.target = CompleteCast
        ELSE ~(/\ disk.target.exists
               /\ disk.target.files # {}
               /\ disk.target.files # CompleteCast.files)

\* The staged render was done and has no casts/<cast_snake>.
CastMissingAfterRender ==
    /\ IsCastRender
    /\ call.fault \notin {"rmtree", "render"}
    /\ call.template.exists /\ ~call.template.hasCast
    /\ "cast_snake" \in DOMAIN call.context

\* C20: if casts/<cast_snake> is absent after the staged render, the cast
\* renderer fails with RenderIntegrityError before the move step: nothing is
\* moved into the target and the target's parent directory is not created.
C20_IntegrityBeforeMove ==
    CastMissingAfterRender =>
        /\ call.outcome = RenderIntegrityError
        /\ ~Contains(call.steps, "mkdir") /\ ~Contains(call.steps, "move")
        /\ ~disk.target.exists
        /\ disk.parent = call.pre.parent

\* The cast directory was missing and the target's parent was not there before
\* the call.
C20_Witness ==
    /\ CastMissingAfterRender
    /\ call.outcome = RenderIntegrityError
    /\ ~call.pre.parent

\* C21: if the template source root does not exist, both renderers fail with
\* TemplateNotFoundError and no rendered tree is produced in the target.
C21_MissingTemplate ==
    ((IsTemplateRender \/ IsCastRender) /\ ~call.template.exists
                                        /\ call.fault = "none") =>
        /\ call.outcome = TemplateNotFoundError
        /\ ~disk.target.exists
        /\ ~disk.staging.exists

\* A render with a missing template, on a target that had files.
C21_Witness ==
    /\ IsTemplateRender \/ IsCastRender
    /\ ~call.template.exists /\ call.fault = "none"
    /\ call.pre.target.files # {}
    /\ call.outcome = TemplateNotFoundError

\* C28: render_cookiecutter_template affects only the target directory: for
\* every context, one whose rendered top-level directory has another name than
\* the target included, no other entry of the target's parent directory is
\* created, modified, moved or removed by the call (here: by a call the file
\* system does not fail).
C28_OnlyTargetAffected ==
    (IsTemplateRender /\ call.fault = "none") => disk.other = call.pre.other

====
